---- MODULE Spec2Model ----
(***************************************************************************)
(* A model of the media download service of downloader.py: the path        *)
(* sanitizer, the capacity guard, the retention sweeper and                *)
(* download_content, and of the POST /download handler of server.py.       *)
(*                                                                         *)
(* Specifications: Spec (one call of download_content), SpecHttp (one      *)
(* request to handle_download), SpecGuard (one call of check_disk_usage),  *)
(* SpecSanitize (one call of sanitize_filename), SpecSweep (calls of       *)
(* clean_old_downloads on a tree nothing else touches), SpecConc (a call   *)
(* of clean_old_downloads beside other processes that change the tree),    *)
(* SpecRace (a download beside a call of clean_old_downloads).             *)
(*                                                                         *)
(* Text is modelled as a sequence of atoms.  An atom is a TLA+ string that *)
(* stands for one character ("a", "/", ".") or for a fixed run of          *)
(* characters that the code never looks inside ("downloads", ".mp4",       *)
(* "Merging formats into").  Python's None is the empty tuple None and a   *)
(* present value v is Some(v), so that the empty string and None differ.   *)
(***************************************************************************)
EXTENDS Integers, Sequences, FiniteSets, TLC

VARIABLES
    sanIn,          \* sanitize_filename: the argument
    sanOut,         \* sanitize_filename: the returned string, None before the call
    sanPc,          \* "idle" (not part of this run), "call", "returned"
    DOWNLOAD_DIR,   \* the configured output root (module-level configuration)
    dirs,           \* the directories that exist, as absolute normalized paths
    dirs0,          \* the directories that existed when download_content was called
    url,            \* download_content: the argument
    pc,             \* download_content: the statement about to run
    guard,          \* what check_disk_usage returned, None before it ran
    save_path,      \* the output location, None until line 131 computed it
    proc,           \* what subprocess.run met, None before line 149
    invocations,    \* the number of calls of subprocess.run
    result,         \* the returned dict, None while running or when an exception left
    files,          \* the files that exist: absolute path -> modification time
    locked,         \* the entries whose removal the system refuses (PermissionError)
    now,            \* the clock, in seconds
    swPc,           \* clean_old_downloads: "idle", "start", "walk", "done"
    swRun,          \* the number of the current call of clean_old_downloads
    days_old,       \* clean_old_downloads: the argument
    cutoff_time,    \* line 70
    swStack,        \* the frames of os.walk(DOWNLOAD_DIR, topdown=False), innermost last
    deleted_files_count,
    deleted_dirs_count,
    swErrors,       \* the number of errors the call has logged
    swStart,        \* the clock and the tree when the current call began
    swPrev,         \* the cutoff and the tree at the end of the previous call, or None
    swEntry,        \* the entry the sweeper is half way through, None between entries
    swRemoved,      \* the entries the calls of os.remove and os.rmdir have removed
    envSteps,       \* the number of changes other processes have made to the tree
    reqBody,        \* handle_download: the JSON body of the request
    response,       \* handle_download: the status code and the JSON returned, or None
    httpPc,         \* handle_download: "idle", "recv", "calling", "responded"
    gPath,          \* check_disk_usage: the argument path
    gThreshold,     \* check_disk_usage: the argument threshold_percent
    gReading,       \* what psutil.disk_usage met, None before the call
    gOut,           \* check_disk_usage: the returned bool, None before the call
    gPc             \* "idle", "call", "returned"

sanVars == <<sanIn, sanOut, sanPc>>
dlVars == <<DOWNLOAD_DIR, dirs0, url, pc, guard, save_path, proc, invocations, result>>
fsVars == <<dirs, files, locked>>
swVars == <<swPc, swRun, days_old, cutoff_time, swStack, deleted_files_count,
            deleted_dirs_count, swErrors, swStart, swPrev>>
concVars == <<swEntry, swRemoved, envSteps>>
httpVars == <<reqBody, response, httpPc>>
gVars == <<gPath, gThreshold, gReading, gOut, gPc>>
auxVars == <<concVars, httpVars, gVars>>
vars == <<sanIn, sanOut, sanPc, DOWNLOAD_DIR, dirs, dirs0, url, pc, guard, save_path, proc,
          invocations, result, files, locked, now, swPc, swRun, days_old, cutoff_time, swStack,
          deleted_files_count, deleted_dirs_count, swErrors, swStart, swPrev, swEntry,
          swRemoved, envSteps, reqBody, response, httpPc, gPath, gThreshold, gReading, gOut,
          gPc>>

None == << >>
Some(v) == <<v>>

\* ------------------------------------------------------------------ bounds

\* longest argument handed to sanitize_filename
MaxLen == 3
\* most lines of standard output the external tool prints
MaxLines == 2
\* most changes other processes make to the tree while the sweeper runs
MaxEnvSteps == 2
\* most calls of clean_old_downloads in a row
MaxRuns == 2
\* most seconds the clock advances
MaxTicks == 1

\* ------------------------------------------------------------ characters

AsciiLetters == {"a", "Z"}
AsciiDigits == {"7"}
\* str.isalnum() is true of letters and digits outside ASCII as well: the
\* atoms stand for e-acute (U+00E9) and superscript two (U+00B2)
UnicodeAlnum == {"U+00E9", "U+00B2"}
\* the characters of " ._-"
KeptPunct == {" ", ".", "_", "-"}
\* characters that are neither alphanumeric nor kept (U+20AC: the euro sign)
OtherChars == {"/", ":", "U+20AC"}
Chars == AsciiLetters \cup AsciiDigits \cup UnicodeAlnum \cup KeptPunct \cup OtherChars

\* the runs of ASCII letters and digits that the model treats as one atom
WordAtoms == {"downloads", "root", "srv", "tmp", "domain", "date", "title", "2", "x"}

isalnum(c) == c \in AsciiLetters \cup AsciiDigits \cup UnicodeAlnum \cup WordAtoms

\* a sanitizer whose kept set lacks the hyphen
sanitize_char_no_hyphen(c) == IF isalnum(c) \/ c \in {" ", ".", "_"} THEN c ELSE "_"
sanitize_char(c) == IF isalnum(c) \/ c \in KeptPunct THEN c ELSE "_"

sanitize_filename(filename) == [i \in 1..Len(filename) |-> sanitize_char(filename[i])]

\* ------------------------------------------------------------------ text

Last(s) == s[Len(s)]
startswith(s, prefix) == Len(prefix) <= Len(s) /\ SubSeq(s, 1, Len(prefix)) = prefix
endswith(s, suffix) ==
    Len(suffix) <= Len(s) /\ SubSeq(s, Len(s) - Len(suffix) + 1, Len(s)) = suffix
Contains(s, atom) == \E i \in 1..Len(s) : s[i] = atom

\* str.find / str.rfind of one atom, as 1-based positions; 0 when absent
\* (Python's -1 + 1)
FindFirst(s, atom) ==
    IF Contains(s, atom) THEN CHOOSE i \in 1..Len(s) : s[i] = atom /\ \A j \in 1..(i - 1) : s[j] # atom
    ELSE 0
FindLast(s, atom) ==
    IF Contains(s, atom) THEN CHOOSE i \in 1..Len(s) : s[i] = atom /\ \A j \in (i + 1)..Len(s) : s[j] # atom
    ELSE 0

\* --------------------------------------------------------- posixpath

Sep == "/"
CurDir == <<".">>
ParDir == <<".", ".">>

\* str.split('/'): the segments between separators, empty ones included
RECURSIVE SplitSep(_)
SplitSep(path) ==
    LET i == FindFirst(path, Sep)
    IN IF i = 0 THEN <<path>>
       ELSE <<SubSeq(path, 1, i - 1)>> \o SplitSep(SubSeq(path, i + 1, Len(path)))

\* '/'.join(comps)
RECURSIVE JoinSep(_)
JoinSep(comps) ==
    IF comps = <<>> THEN <<>>
    ELSE IF Len(comps) = 1 THEN comps[1]
    ELSE comps[1] \o <<Sep>> \o JoinSep(Tail(comps))

\* os.path.join(a, b)
PathJoin2(a, b) ==
    IF startswith(b, <<Sep>>) THEN b
    ELSE IF a = <<>> \/ endswith(a, <<Sep>>) THEN a \o b
    ELSE a \o <<Sep>> \o b

PathJoin3(a, b, c) == PathJoin2(PathJoin2(a, b), c)

\* the loop of posixpath.normpath over the split components
RECURSIVE NormComps(_, _, _)
NormComps(comps, new_comps, rooted) ==
    IF comps = <<>> THEN new_comps
    ELSE LET comp == Head(comps)
             rest == Tail(comps)
         IN IF comp = <<>> \/ comp = CurDir THEN NormComps(rest, new_comps, rooted)
            ELSE IF \/ comp # ParDir
                    \/ (~rooted /\ new_comps = <<>>)
                    \/ (new_comps # <<>> /\ Last(new_comps) = ParDir)
                 THEN NormComps(rest, Append(new_comps, comp), rooted)
            ELSE IF new_comps # <<>>
                 THEN NormComps(rest, SubSeq(new_comps, 1, Len(new_comps) - 1), rooted)
            ELSE NormComps(rest, new_comps, rooted)

\* posixpath.normpath (a path that starts with exactly two slashes keeps both:
\* no path of the model does)
normpath(path) ==
    IF path = <<>> THEN CurDir
    ELSE LET rooted == startswith(path, <<Sep>>)
             joined == JoinSep(NormComps(SplitSep(path), <<>>, rooted))
             out == IF rooted THEN <<Sep>> \o joined ELSE joined
         IN IF out = <<>> THEN CurDir ELSE out

\* the process's working directory
Cwd == <<"/", "srv">>

abspath(path) == normpath(PathJoin2(Cwd, path))

\* the non-empty segments of a path
Segments(path) == SelectSeq(SplitSep(path), LAMBDA c : c # <<>>)

RECURSIVE CommonPrefixLen(_, _)
CommonPrefixLen(a, b) ==
    IF a = <<>> \/ b = <<>> \/ Head(a) # Head(b) THEN 0
    ELSE 1 + CommonPrefixLen(Tail(a), Tail(b))

\* posixpath.relpath(path, start) for a non-empty path (an empty one raises
\* ValueError)
relpath(path, start) ==
    LET start_list == Segments(abspath(start))
        path_list == Segments(abspath(path))
        i == CommonPrefixLen(start_list, path_list)
        rel_list == [k \in 1..(Len(start_list) - i) |-> ParDir]
                        \o SubSeq(path_list, i + 1, Len(path_list))
    IN IF rel_list = <<>> THEN CurDir ELSE JoinSep(rel_list)

\* --------------------------------------------------------------- json

Q == "\""
Whitespace == {" "}

RECURSIVE SkipWs(_, _)
SkipWs(s, i) == IF i <= Len(s) /\ s[i] \in Whitespace THEN SkipWs(s, i + 1) ELSE i

RECURSIVE StripLeft(_)
StripLeft(s) == IF s # <<>> /\ Head(s) \in Whitespace THEN StripLeft(Tail(s)) ELSE s
RECURSIVE StripRight(_)
StripRight(s) ==
    IF s # <<>> /\ Last(s) \in Whitespace THEN StripRight(SubSeq(s, 1, Len(s) - 1)) ELSE s
\* str.strip()
strip(s) == StripRight(StripLeft(s))

JsonFail == [ok |-> FALSE, val |-> <<>>, type |-> "none", next |-> 0]

\* a string literal opening at position i (the texts of the model hold no
\* escapes)
JsonString(s, i) ==
    IF i > Len(s) \/ s[i] # Q THEN JsonFail
    ELSE LET rest == SubSeq(s, i + 1, Len(s))
             j == FindFirst(rest, Q)
         IN IF j = 0 THEN JsonFail
            ELSE [ok |-> TRUE, val |-> SubSeq(rest, 1, j - 1), type |-> "str", next |-> i + j + 1]

\* a value at position i: a string, a number or null
JsonValue(s, i) ==
    IF i > Len(s) THEN JsonFail
    ELSE IF s[i] = Q THEN JsonString(s, i)
    ELSE IF s[i] = "null" THEN [ok |-> TRUE, val |-> <<>>, type |-> "null", next |-> i + 1]
    ELSE IF s[i] = "1" THEN [ok |-> TRUE, val |-> <<"1">>, type |-> "num", next |-> i + 1]
    ELSE JsonFail

\* the members of an object from position i to its closing brace; a later
\* member with the same key replaces the earlier one, as in a dict
RECURSIVE JsonMembers(_, _, _)
JsonMembers(s, i, acc) ==
    LET k == JsonString(s, SkipWs(s, i))
        colon == SkipWs(s, k.next)
        v == JsonValue(s, SkipWs(s, colon + 1))
        after == SkipWs(s, v.next)
        member == [key |-> k.val, type |-> v.type, val |-> v.val]
        kept == SelectSeq(acc, LAMBDA m : m.key # k.val)
    IN IF ~k.ok \/ colon > Len(s) \/ s[colon] # ":" \/ ~v.ok \/ after > Len(s) THEN
           [ok |-> FALSE, members |-> <<>>, next |-> 0]
       ELSE IF s[after] = "}" THEN [ok |-> TRUE, members |-> Append(kept, member), next |-> after + 1]
       ELSE IF s[after] = "," THEN JsonMembers(s, after + 1, Append(kept, member))
       ELSE [ok |-> FALSE, members |-> <<>>, next |-> 0]

\* json.loads of a line that holds an object: ok is FALSE where json.loads
\* raises JSONDecodeError
json_loads(s) ==
    LET open == SkipWs(s, 1)
        first == SkipWs(s, open + 1)
        body == IF first <= Len(s) /\ s[first] = "}"
                THEN [ok |-> TRUE, members |-> <<>>, next |-> first + 1]
                ELSE JsonMembers(s, open + 1, <<>>)
    IN IF open > Len(s) \/ s[open] # "{" THEN [ok |-> FALSE, members |-> <<>>]
       ELSE IF body.ok /\ SkipWs(s, body.next) > Len(s) THEN [ok |-> TRUE, members |-> body.members]
       ELSE [ok |-> FALSE, members |-> <<>>]

HasKey(members, key) == \E i \in 1..Len(members) : members[i].key = key
Lookup(members, key) == members[CHOOSE i \in 1..Len(members) : members[i].key = key]

\* ------------------------------------------------------ result extraction

\* the rule of lines 166-170 and 189-192: a path whose absolute form starts
\* with the absolute output root is made relative to the root, any other is
\* kept as reported
Relativize(abs_path, root) ==
    IF startswith(abspath(abs_path), abspath(root)) THEN relpath(abs_path, root) ELSE abs_path

\* line 157: the lines that start with '{' and end with '}' once stripped
IsJsonLine(line) == startswith(strip(line), <<"{">>) /\ endswith(strip(line), <<"}">>)
json_lines(stdout) == SelectSeq(stdout, IsJsonLine)

\* the first structured line instead of the last
PickFirstJsonLine(lines) == lines[1]
\* line 161: json_lines[-1]
PickJsonLine(lines) == lines[Len(lines)]

\* lines 159-177: the structured tier on the chosen line.  A line that does
\* not parse, a record without '_filename' and a '_filename' that is no
\* string (abspath raises TypeError, caught at line 176) leave None.
FilenameFromJson(line, root) ==
    LET info == json_loads(line)
    IN IF ~info.ok THEN None
       ELSE IF ~HasKey(info.members, <<"_filename">>) THEN None
       ELSE LET v == Lookup(info.members, <<"_filename">>)
            IN IF v.type # "str" THEN None ELSE Some(Relativize(v.val, root))

MergeMarker == "Merging formats into"

\* line 182
IsMergeLine(line) ==
    Contains(line, MergeMarker) /\ (Contains(line, ".mp4") \/ Contains(line, ".mkv"))

\* lines 185-187: the text between the first and the last quote, when there
\* is one
HasQuotedPath(line) ==
    LET start == FindFirst(line, Q) + 1
        end == FindLast(line, Q) - 1
    IN start > 1 /\ end + 1 > start
QuotedPath(line) == SubSeq(line, FindFirst(line, Q) + 1, FindLast(line, Q) - 1)

\* lines 181-196: the first merge line that holds a quoted path
RECURSIVE FilenameFromMerge(_, _)
FilenameFromMerge(stdout, root) ==
    IF stdout = <<>> THEN None
    ELSE IF IsMergeLine(Head(stdout)) /\ HasQuotedPath(Head(stdout))
         THEN Some(Relativize(QuotedPath(Head(stdout)), root))
    ELSE FilenameFromMerge(Tail(stdout), root)

\* an extractor that turns to the merge lines whenever the records gave nothing
ExtractFilenameFallThrough(stdout, root) ==
    IF json_lines(stdout) # <<>>
        /\ FilenameFromJson(PickJsonLine(json_lines(stdout)), root) # None
    THEN FilenameFromJson(PickJsonLine(json_lines(stdout)), root)
    ELSE FilenameFromMerge(stdout, root)

\* lines 152-199: video_filename for the captured standard output
ExtractFilename(stdout, root) ==
    IF json_lines(stdout) # <<>> THEN FilenameFromJson(PickJsonLine(json_lines(stdout)), root)
    ELSE FilenameFromMerge(stdout, root)

\* ------------------------------------------------------------- inputs

RECURSIVE SeqsUpTo(_, _)
SeqsUpTo(S, n) ==
    IF n = 0 THEN {<<>>}
    ELSE LET shorter == SeqsUpTo(S, n - 1)
         IN shorter \cup {Append(s, c) : s \in {t \in shorter : Len(t) = n - 1}, c \in S}

\* DOWNLOAD_DIR as line 12 sets it, and an absolute root, /root, as a
\* deployment that edits the configuration would have it
Roots == {<<"downloads">>, <<"/", "root">>}

\* '', http://a7/x, http://../x, http://./x, http:///x, x, http://[a/x and
\* http://<e-acute>:7/x
UrlSamples ==
    { <<>>,
      <<"http:", "/", "/", "a", "7", "/", "x">>,
      <<"http:", "/", "/", ".", ".", "/", "x">>,
      <<"http:", "/", "/", ".", "/", "x">>,
      <<"http:", "/", "/", "/", "x">>,
      <<"x">>,
      <<"http:", "/", "/", "[", "a", "/", "x">>,
      <<"http:", "/", "/", "U+00E9", ":", "7", "/", "x">> }

\* used space in tenths of a percent: 50.0, 89.9, 90.0 and 100.0
UsageSamples == {500, 899, 900, 1000}

JsonFilenameLine(path) == <<"{", Q, "_filename", Q, ":", " ", Q>> \o path \o <<Q, "}">>
MergeLine(path) == <<"[Merger]", " ", MergeMarker, " ", Q>> \o path \o <<Q>>

PathUnderAbsRoot == <<"/", "root", "/", "domain", "/", "date", "/", "title", ".mp4">>
PathUnderAbsRootMkv == <<"/", "root", "/", "domain", "/", "date", "/", "title", ".mkv">>
PathUnderRelRoot == <<"downloads", "/", "domain", "/", "date", "/", "title", ".mp4">>
PathSibling == <<"downloads", "2", "/", "x", ".mp4">>
PathElsewhere == <<"/", "tmp", "/", "x", ".mp4">>

\* the lines the external tool may print
LineSamples ==
    { JsonFilenameLine(PathUnderAbsRoot),
      JsonFilenameLine(PathUnderRelRoot),
      JsonFilenameLine(PathSibling),
      JsonFilenameLine(PathElsewhere),
      <<" ">> \o JsonFilenameLine(PathUnderAbsRootMkv) \o <<" ">>,
      <<"{", Q, "title", Q, ":", " ", Q, "x", Q, "}">>,
      <<"{", Q, "_filename", Q, ":", " ", "null", "}">>,
      <<"{", "title", "}">>,
      MergeLine(PathUnderAbsRootMkv),
      MergeLine(PathUnderRelRoot),
      <<"[Merger]", " ", MergeMarker, " ", "title", ".mp4">>,
      MergeLine(<<"/", "root", "/", "x">>),
      <<"[download]", " ", "100%">> }

StdoutSamples == SeqsUpTo(LineSamples, MaxLines)
StderrSamples == {<<>>, <<"ERROR: Unsupported URL">>}

\* what subprocess.run(..., text=True, encoding='utf-8', check=True) can meet:
\* the executable is missing (FileNotFoundError), it cannot be started for
\* another reason (OSError), or it runs and exits; the captured bytes of a
\* process that ran either decode as UTF-8 or raise UnicodeDecodeError
ToolOutcomes ==
    {[kind |-> "exit", returncode |-> 0, stdout |-> so, stderr |-> <<>>, decodable |-> TRUE] :
        so \in StdoutSamples}
    \cup {[kind |-> "exit", returncode |-> rc, stdout |-> <<>>, stderr |-> <<>>, decodable |-> FALSE] :
        rc \in {0, 1}}
    \cup {[kind |-> "exit", returncode |-> 1, stdout |-> <<>>, stderr |-> se, decodable |-> TRUE] :
        se \in StderrSamples}
    \cup {[kind |-> k, returncode |-> 0, stdout |-> <<>>, stderr |-> <<>>, decodable |-> TRUE] :
        k \in {"notfound", "oserror"}}

\* ------------------------------------------------------------ file system

\* a directory path and every ancestor of it
WithAncestors(path) ==
    LET segs == Segments(path)
    IN {<<Sep>> \o JoinSep(SubSeq(segs, 1, k)) : k \in 0..Len(segs)}

\* whether path is the directory root or lies below it, segment by segment
IsUnder(path, root) ==
    LET p == Segments(path)
        r == Segments(root)
    IN Len(r) <= Len(p) /\ SubSeq(p, 1, Len(r)) = r

\* --------------------------------------------------------- capacity guard

DISK_SPACE_THRESHOLD_PERCENT == 90

\* psutil.disk_usage(path): the used percentage, or an exception; a path that
\* does not exist always raises FileNotFoundError
DiskReadings(path) ==
    {[ok |-> FALSE, percent |-> 0]}
    \cup (IF path \in dirs THEN {[ok |-> TRUE, percent |-> u] : u \in UsageSamples} ELSE {})

\* a guard that lets a disk exactly at the threshold through
check_disk_usage_strict(reading, threshold_percent) ==
    reading.ok /\ reading.percent > threshold_percent * 10

\* check_disk_usage for what disk_usage gave: both except clauses return False
check_disk_usage(reading, threshold_percent) ==
    reading.ok /\ reading.percent >= threshold_percent * 10

\* -------------------------------------------------------------- urlparse

SchemeAtoms == {"http:"}
AfterScheme(u) == IF u # <<>> /\ Head(u) \in SchemeAtoms THEN Tail(u) ELSE u

RECURSIVE TakeNetloc(_)
TakeNetloc(s) ==
    IF s = <<>> \/ Head(s) \in {"/", "?", "#"} THEN <<>>
    ELSE <<Head(s)>> \o TakeNetloc(Tail(s))

\* urlparse(url).netloc: what follows '//' up to the next '/', '?' or '#'
Netloc(u) ==
    LET rest == AfterScheme(u)
    IN IF startswith(rest, <<"/", "/">>) THEN TakeNetloc(SubSeq(rest, 3, Len(rest))) ELSE <<>>

\* urlsplit raises ValueError("Invalid IPv6 URL") on an unbalanced bracket
UrlparseRaises(u) ==
    \/ Contains(Netloc(u), "[") /\ ~Contains(Netloc(u), "]")
    \/ Contains(Netloc(u), "]") /\ ~Contains(Netloc(u), "[")

\* ------------------------------------------------------ download_content

\* datetime.now().strftime("%Y-%m-%d")
date_folder == <<"2024-01-01">>

UsageText(percent) ==
    CASE percent = 500 -> "50.00%."
      [] percent = 899 -> "89.90%."
      [] percent = 900 -> "90.00%."
      [] percent = 1000 -> "100.00%."
      [] OTHER -> "?%."
UsageMessage(percent) ==
    <<"Disk space critically low. Please free up space. Current usage: ", UsageText(percent)>>

\* an error dict that also carries the artifact key
ErrorResultWithFilename(message) == [status |-> "error", error |-> message, video_filename |-> None]
ErrorResult(message) == [status |-> "error", error |-> message]
SuccessResult(stdout, video_filename) ==
    [status |-> "success", output |-> stdout, video_filename |-> video_filename]

\* a test that lets the empty URL through
IsEmptyUrlNever(u) == FALSE
\* line 114: not url
IsEmptyUrl(u) == u = <<>>

\* line 131
SavePath(root, u) == PathJoin3(root, sanitize_filename(Netloc(u)), date_folder)

\* lines 147-215: the dict returned for what subprocess.run met
Classify(outcome, root) ==
    IF outcome.kind = "notfound" THEN ErrorResult(<<"yt-dlp not found. Please install it.">>)
    ELSE IF outcome.kind = "oserror" THEN ErrorResult(<<"[Errno 13] Permission denied: 'yt-dlp'">>)
    ELSE IF ~outcome.decodable THEN ErrorResult(<<"'utf-8' codec can't decode byte 0xff">>)
    ELSE IF outcome.returncode # 0 THEN ErrorResult(outcome.stderr)
    ELSE SuccessResult(outcome.stdout, ExtractFilename(outcome.stdout, root))

\* the clock when the model starts: 31 days after the epoch
Now0 == 31 * 24 * 60 * 60

SweepIdle ==
    /\ swPc = "idle"
    /\ swRun = 0
    /\ days_old = 0
    /\ cutoff_time = 0
    /\ swStack = <<>>
    /\ deleted_files_count = 0
    /\ deleted_dirs_count = 0
    /\ swErrors = 0
    /\ swStart = None
    /\ swPrev = None

DownloadIdle ==
    /\ DOWNLOAD_DIR = <<"downloads">>
    /\ dirs0 = {}
    /\ url = <<>>
    /\ pc = "idle"
    /\ guard = None
    /\ save_path = None
    /\ proc = None
    /\ invocations = 0
    /\ result = None

SanitizeIdle ==
    /\ sanIn = <<>>
    /\ sanOut = None
    /\ sanPc = "idle"

ConcIdle ==
    /\ swEntry = None
    /\ swRemoved = {}
    /\ envSteps = 0

HttpIdle ==
    /\ reqBody = None
    /\ response = None
    /\ httpPc = "idle"

GuardIdle ==
    /\ gPath = <<>>
    /\ gThreshold = 0
    /\ gReading = None
    /\ gOut = None
    /\ gPc = "idle"

Init ==
    /\ SanitizeIdle
    /\ SweepIdle
    /\ ConcIdle
    /\ HttpIdle
    /\ GuardIdle
    /\ files = <<>>
    /\ locked = {}
    /\ now = Now0
    /\ DOWNLOAD_DIR \in Roots
    /\ url \in UrlSamples
    /\ dirs \in {WithAncestors(Cwd), WithAncestors(Cwd) \cup WithAncestors(abspath(DOWNLOAD_DIR))}
    /\ dirs0 = dirs
    /\ pc = "l114"
    /\ guard = None
    /\ save_path = None
    /\ proc = None
    /\ invocations = 0
    /\ result = None

\* lines 114-116
CheckUrl ==
    /\ pc = "l114"
    /\ IF IsEmptyUrl(url)
       THEN result' = Some(ErrorResult(<<"Empty URL provided.">>)) /\ pc' = "done"
       ELSE result' = result /\ pc' = "l119"
    /\ UNCHANGED <<auxVars, sanVars, swVars, files, locked, now, DOWNLOAD_DIR, dirs, dirs0, url, guard, save_path, proc, invocations>>

\* line 119: os.makedirs(DOWNLOAD_DIR, exist_ok=True) creates the root, or
\* raises OSError outside any try
MakeRoot ==
    /\ pc = "l119"
    /\ \E created \in BOOLEAN :
        IF created
        THEN dirs' = dirs \cup WithAncestors(abspath(DOWNLOAD_DIR)) /\ pc' = "l122"
        ELSE dirs' = dirs /\ pc' = "raised"
    /\ UNCHANGED <<auxVars, sanVars, swVars, files, locked, now, DOWNLOAD_DIR, dirs0, url, guard, save_path, proc, invocations, result>>

\* line 122: check_disk_usage(path=DOWNLOAD_DIR, ...)
RunGuard ==
    /\ pc = "l122"
    /\ \E reading \in DiskReadings(abspath(DOWNLOAD_DIR)) :
        LET over == check_disk_usage(reading, DISK_SPACE_THRESHOLD_PERCENT)
        IN /\ guard' = Some(over)
           /\ pc' = IF over THEN "l124" ELSE "l128"
    /\ UNCHANGED <<auxVars, sanVars, swVars, files, locked, now, DOWNLOAD_DIR, dirs, dirs0, url, save_path, proc, invocations, result>>

\* lines 123-124: the message reads psutil.disk_usage a second time, outside
\* any try
ReportLowSpace ==
    /\ pc = "l124"
    /\ \E reading \in DiskReadings(abspath(DOWNLOAD_DIR)) :
        IF reading.ok
        THEN result' = Some(ErrorResult(UsageMessage(reading.percent))) /\ pc' = "done"
        ELSE result' = result /\ pc' = "raised"
    /\ UNCHANGED <<auxVars, sanVars, swVars, files, locked, now, DOWNLOAD_DIR, dirs, dirs0, url, guard, save_path, proc, invocations>>

\* lines 128-131: urlparse raises ValueError outside any try
ComputeSavePath ==
    /\ pc = "l128"
    /\ IF UrlparseRaises(url)
       THEN save_path' = save_path /\ pc' = "raised"
       ELSE save_path' = Some(SavePath(DOWNLOAD_DIR, url)) /\ pc' = "l133"
    /\ UNCHANGED <<auxVars, sanVars, swVars, files, locked, now, DOWNLOAD_DIR, dirs, dirs0, url, guard, proc, invocations, result>>

\* line 133: os.makedirs(save_path, exist_ok=True), outside any try
MakeSavePath ==
    /\ pc = "l133"
    /\ \E created \in BOOLEAN :
        IF created
        THEN dirs' = dirs \cup WithAncestors(abspath(save_path[1])) /\ pc' = "l149"
        ELSE dirs' = dirs /\ pc' = "raised"
    /\ UNCHANGED <<auxVars, sanVars, swVars, files, locked, now, DOWNLOAD_DIR, dirs0, url, guard, save_path, proc, invocations, result>>

\* lines 147-215: subprocess.run and the classification of what it met
RunTool ==
    /\ pc = "l149"
    /\ \E outcome \in ToolOutcomes :
        /\ proc' = Some(outcome)
        /\ result' = Some(Classify(outcome, DOWNLOAD_DIR))
    /\ invocations' = invocations + 1
    /\ pc' = "done"
    /\ UNCHANGED <<auxVars, sanVars, swVars, files, locked, now, DOWNLOAD_DIR, dirs, dirs0, url, guard, save_path>>

Next ==
    \/ CheckUrl
    \/ MakeRoot
    \/ RunGuard
    \/ ReportLowSpace
    \/ ComputeSavePath
    \/ MakeSavePath
    \/ RunTool

Spec == Init /\ [][Next]_vars

\* ------------------------------------------- server.py: POST /download

\* request.json: no JSON body, the empty object, an object without "url",
\* an object whose "url" is a string
BodySamples ==
    {[kind |-> "none", url |-> <<>>], [kind |-> "empty", url |-> <<>>],
     [kind |-> "other", url |-> <<>>]}
        \cup {[kind |-> "url", url |-> u] : u \in UrlSamples}

\* server.py line 38: not data or "url" not in data
MissingUrl(data) == data.kind # "url"

\* server.py line 58: not video_filename
NoFilename(video_filename) == video_filename = None \/ video_filename = Some(<<>>)

\* server.py line 66: f"/downloads/{video_filename}"
VideoUrl(video_filename) == <<"/", "downloads", "/">> \o video_filename

\* server.py lines 38-40
BadRequest == [code |-> 400, body |-> [error |-> <<"Missing 'url' in request.">>]]

\* server.py lines 75-77
InternalError ==
    [code |-> 500, body |-> [status |-> "error", error |-> <<"Internal server error: ">>]]

\* a handler that reports a download without a file name as a failure
HttpResponseStrict(r) ==
    IF r.status = "error"
    THEN [code |-> 500, body |-> [status |-> "error", error |-> r.error]]
    ELSE IF NoFilename(r.video_filename)
    THEN [code |-> 500,
          body |-> [status |-> "error", error |-> <<"An unknown error occurred during download.">>]]
    ELSE [code |-> 200,
          body |-> [status |-> "success", video_url |-> VideoUrl(r.video_filename[1]),
                    message |-> <<"Content downloaded successfully!">>]]

\* server.py lines 51-73: the response made from the dict download_content returned
HttpResponse(r) ==
    IF r.status = "error"
    THEN [code |-> 500, body |-> [status |-> "error", error |-> r.error]]
    ELSE IF NoFilename(r.video_filename)
    THEN [code |-> 200,
          body |-> [status |-> "success",
                    message |-> <<"Download completed, but could not determine direct video URL. Check server logs.">>]]
    ELSE [code |-> 200,
          body |-> [status |-> "success", video_url |-> VideoUrl(r.video_filename[1]),
                    message |-> <<"Content downloaded successfully!">>]]

InitHttp ==
    /\ SanitizeIdle
    /\ SweepIdle
    /\ ConcIdle
    /\ GuardIdle
    /\ files = <<>>
    /\ locked = {}
    /\ now = Now0
    /\ DOWNLOAD_DIR \in Roots
    /\ dirs \in {WithAncestors(Cwd), WithAncestors(Cwd) \cup WithAncestors(abspath(DOWNLOAD_DIR))}
    /\ dirs0 = dirs
    /\ url = <<>>
    /\ pc = "idle"
    /\ guard = None
    /\ save_path = None
    /\ proc = None
    /\ invocations = 0
    /\ result = None
    /\ reqBody \in BodySamples
    /\ response = None
    /\ httpPc = "recv"

\* server.py lines 36-49: the request is refused, or download_content is called
Receive ==
    /\ httpPc = "recv"
    /\ IF MissingUrl(reqBody)
       THEN /\ response' = Some(BadRequest)
            /\ httpPc' = "responded"
            /\ UNCHANGED <<url, pc>>
       ELSE /\ url' = reqBody.url
            /\ pc' = "l114"
            /\ httpPc' = "calling"
            /\ UNCHANGED response
    /\ UNCHANGED <<concVars, gVars, sanVars, swVars, fsVars, now, DOWNLOAD_DIR, dirs0, guard,
                   save_path, proc, invocations, result, reqBody>>

\* server.py lines 51-77: download_content returned a dict, or raised into
\* the handler's except clause
Respond ==
    /\ httpPc = "calling"
    /\ pc \in {"done", "raised"}
    /\ response' = Some(IF pc = "done" THEN HttpResponse(result[1]) ELSE InternalError)
    /\ httpPc' = "responded"
    /\ UNCHANGED <<concVars, gVars, sanVars, swVars, fsVars, now, dlVars, reqBody>>

NextHttp ==
    \/ Receive
    \/ CheckUrl
    \/ MakeRoot
    \/ RunGuard
    \/ ReportLowSpace
    \/ ComputeSavePath
    \/ MakeSavePath
    \/ RunTool
    \/ Respond

SpecHttp == InitHttp /\ [][NextHttp]_vars

\* ------------------------------------------------------ retention sweeper

CLEANUP_DAYS_OLD == 30
SecondsPerDay == 24 * 60 * 60

DirName(path) ==
    LET segs == Segments(path)
    IN <<Sep>> \o JoinSep(SubSeq(segs, 1, Len(segs) - 1))
BaseName(path) == Last(Segments(path))

\* the entries directly inside a directory
ChildDirs(d, ds) == {c \in ds : c # <<Sep>> /\ DirName(c) = d}
ChildFiles(d, fs) == {c \in DOMAIN fs : DirName(c) = d}

Without(fs, path) == [f \in DOMAIN fs \ {path} |-> fs[f]]

\* an age test that also takes a file exactly as old as the cutoff
IsOldOrAtCutoff(mtime, cutoff) == mtime <= cutoff
\* line 82: st_mtime < cutoff_time
IsOld(mtime, cutoff) == mtime < cutoff

\* an emptiness test on the tree as it was when the call began
WasEmptyAtStart(dirpath, ds, fs) ==
    ChildDirs(dirpath, swStart[1].dirs) = {} /\ ChildFiles(dirpath, swStart[1].files) = {}
\* line 96: not os.listdir(dirpath)
IsEmptyDir(dirpath, ds, fs) == ChildDirs(dirpath, ds) = {} /\ ChildFiles(dirpath, fs) = {}

\* a frame of os.walk: the directory, whether scandir has listed it, the
\* subdirectories still to walk, and the names the yield hands to the loops
\* of lines 78 and 92 that are still to be visited
Frame(top) == [top |-> top, scanned |-> FALSE, walk_dirs |-> {}, dirs |-> {}, files |-> {}]
Top == swStack[Len(swStack)]
Pop == SubSeq(swStack, 1, Len(swStack) - 1)
ReplaceTop(frame) == [swStack EXCEPT ![Len(swStack)] = frame]

\* lines 61-77: the call with the default age (as line 235 makes it), the
\* existence test, the cutoff and the call of os.walk
SweepStart ==
    /\ swPc = "start"
    /\ days_old' = CLEANUP_DAYS_OLD
    /\ swStart' = Some([now |-> now, dirs |-> dirs, files |-> files])
    /\ IF abspath(DOWNLOAD_DIR) \notin dirs
       THEN /\ swPc' = "done"
            /\ UNCHANGED <<cutoff_time, swStack>>
       ELSE /\ swPc' = "walk"
            /\ cutoff_time' = now - days_old' * 24 * 60 * 60
            /\ swStack' = <<Frame(DOWNLOAD_DIR)>>
    /\ deleted_files_count' = 0
    /\ deleted_dirs_count' = 0
    /\ swErrors' = 0
    /\ UNCHANGED <<auxVars, sanVars, dlVars, fsVars, now, swRun, swPrev>>

\* os.walk: scandir lists the directory once; a directory that cannot be
\* listed yields nothing
WalkScan ==
    /\ swPc = "walk"
    /\ swStack # <<>>
    /\ ~Top.scanned
    /\ LET top == abspath(Top.top)
           subdirs == ChildDirs(top, dirs)
       IN IF top \notin dirs
          THEN swStack' = Pop
          ELSE swStack' = ReplaceTop([top |-> Top.top,
                                      scanned |-> TRUE,
                                      walk_dirs |-> {PathJoin2(Top.top, BaseName(c)) : c \in subdirs},
                                      dirs |-> {BaseName(c) : c \in subdirs},
                                      files |-> {BaseName(c) : c \in ChildFiles(top, files)}])
    /\ UNCHANGED <<auxVars, sanVars, dlVars, fsVars, now, swPc, swRun, days_old, cutoff_time,
                   deleted_files_count, deleted_dirs_count, swErrors, swStart, swPrev>>

\* os.walk, bottom-up: every subdirectory is walked before the directory
\* itself is yielded
WalkDescend ==
    /\ swPc = "walk"
    /\ swStack # <<>>
    /\ Top.scanned
    /\ \E sub \in Top.walk_dirs :
        swStack' = Append(ReplaceTop([Top EXCEPT !.walk_dirs = @ \ {sub}]), Frame(sub))
    /\ UNCHANGED <<auxVars, sanVars, dlVars, fsVars, now, swPc, swRun, days_old, cutoff_time,
                   deleted_files_count, deleted_dirs_count, swErrors, swStart, swPrev>>

\* lines 78-89: one iteration of the loop over the files of the yielded
\* directory
SweepFile ==
    /\ swPc = "walk"
    /\ swStack # <<>>
    /\ Top.scanned
    /\ Top.walk_dirs = {}
    /\ \E name \in Top.files :
        LET filepath == abspath(PathJoin2(Top.top, name))
        IN /\ swStack' = ReplaceTop([Top EXCEPT !.files = @ \ {name}])
           /\ IF filepath \in DOMAIN files /\ IsOld(files[filepath], cutoff_time)
              THEN IF filepath \in locked
                   THEN /\ swErrors' = swErrors + 1
                        /\ UNCHANGED <<files, deleted_files_count>>
                   ELSE /\ files' = Without(files, filepath)
                        /\ deleted_files_count' = deleted_files_count + 1
                        /\ UNCHANGED swErrors
              ELSE UNCHANGED <<files, deleted_files_count, swErrors>>
    /\ UNCHANGED <<auxVars, sanVars, dlVars, dirs, locked, now, swPc, swRun, days_old, cutoff_time,
                   deleted_dirs_count, swStart, swPrev>>

\* lines 92-103: one iteration of the loop over the subdirectories of the
\* yielded directory, entered when the loop over its files has ended
SweepDir ==
    /\ swPc = "walk"
    /\ swStack # <<>>
    /\ Top.scanned
    /\ Top.walk_dirs = {}
    /\ Top.files = {}
    /\ \E name \in Top.dirs :
        LET dirpath == abspath(PathJoin2(Top.top, name))
        IN /\ swStack' = ReplaceTop([Top EXCEPT !.dirs = @ \ {name}])
           /\ IF dirpath \in dirs /\ IsEmptyDir(dirpath, dirs, files)
              THEN IF dirpath \in locked
                   THEN /\ swErrors' = swErrors + 1
                        /\ UNCHANGED <<dirs, deleted_dirs_count>>
                   ELSE /\ dirs' = dirs \ {dirpath}
                        /\ deleted_dirs_count' = deleted_dirs_count + 1
                        /\ UNCHANGED swErrors
              ELSE UNCHANGED <<dirs, deleted_dirs_count, swErrors>>
    /\ UNCHANGED <<auxVars, sanVars, dlVars, files, locked, now, swPc, swRun, days_old, cutoff_time,
                   deleted_files_count, swStart, swPrev>>

\* the body of the for loop has run for the yielded directory: os.walk goes
\* on with the directory above it
WalkReturn ==
    /\ swPc = "walk"
    /\ swStack # <<>>
    /\ Top.scanned
    /\ Top.walk_dirs = {}
    /\ Top.files = {}
    /\ Top.dirs = {}
    /\ swStack' = Pop
    /\ UNCHANGED <<auxVars, sanVars, dlVars, fsVars, now, swPc, swRun, days_old, cutoff_time,
                   deleted_files_count, deleted_dirs_count, swErrors, swStart, swPrev>>

\* line 105: os.walk is exhausted, the counts are logged
SweepFinish ==
    /\ swPc = "walk"
    /\ swStack = <<>>
    /\ swPc' = "done"
    /\ UNCHANGED <<auxVars, sanVars, dlVars, fsVars, now, swRun, days_old, cutoff_time, swStack,
                   deleted_files_count, deleted_dirs_count, swErrors, swStart, swPrev>>

\* clean_old_downloads is called again
SweepAgain ==
    /\ swPc = "done"
    /\ swRun < MaxRuns
    /\ swRun' = swRun + 1
    /\ swPc' = "start"
    /\ swPrev' = Some([cutoff |-> cutoff_time, dirs |-> dirs, files |-> files,
                       deleted_files_count |-> deleted_files_count,
                       deleted_dirs_count |-> deleted_dirs_count])
    /\ UNCHANGED <<auxVars, sanVars, dlVars, fsVars, now, days_old, cutoff_time, swStack,
                   deleted_files_count, deleted_dirs_count, swErrors, swStart>>

\* time passes between two calls (line 70 is the only reading of the clock)
Tick ==
    /\ swPc = "start"
    /\ now < Now0 + MaxTicks
    /\ now' = now + 1
    /\ UNCHANGED <<auxVars, sanVars, dlVars, fsVars, swVars>>

\* the trees the sweeper is started on
SweepRoot == <<"/", "srv", "/", "downloads">>
DomainDir == SweepRoot \o <<"/", "domain">>
DateDir == DomainDir \o <<"/", "date">>
OtherDir == SweepRoot \o <<"/", "x">>
TreeDirSamples ==
    { {}, {SweepRoot}, {SweepRoot, OtherDir}, {SweepRoot, DomainDir},
      {SweepRoot, DomainDir, OtherDir}, {SweepRoot, DomainDir, DateDir},
      {SweepRoot, DomainDir, DateDir, OtherDir} }
FileSamples ==
    { DateDir \o <<"/", "title", ".mp4">>, DateDir \o <<"/", "title", ".mkv">>,
      DomainDir \o <<"/", "title", ".mp4">>, OtherDir \o <<"/", "title", ".mp4">> }
\* the entries that may refuse removal
LockedSamples == {DateDir \o <<"/", "title", ".mp4">>, DateDir}
\* modification times one second before, at, and one second after the cutoff
\* of a call made at Now0 with the default age
MtimeSamples == {SecondsPerDay - 1, SecondsPerDay, SecondsPerDay + 1}

InitSweep ==
    /\ SanitizeIdle
    /\ DownloadIdle
    /\ ConcIdle
    /\ HttpIdle
    /\ GuardIdle
    /\ \E tree \in TreeDirSamples :
        /\ dirs = WithAncestors(Cwd) \cup tree
        /\ \E present \in SUBSET {f \in FileSamples : DirName(f) \in tree} :
            /\ files \in [present -> MtimeSamples]
            /\ locked \in {{}} \cup {{e} : e \in (present \cup tree) \cap LockedSamples}
    /\ now = Now0
    /\ swPc = "start"
    /\ swRun = 1
    /\ days_old = 0
    /\ cutoff_time = 0
    /\ swStack = <<>>
    /\ deleted_files_count = 0
    /\ deleted_dirs_count = 0
    /\ swErrors = 0
    /\ swStart = None
    /\ swPrev = None

NextSweep ==
    \/ SweepStart
    \/ WalkScan
    \/ WalkDescend
    \/ SweepFile
    \/ SweepDir
    \/ WalkReturn
    \/ SweepFinish
    \/ SweepAgain
    \/ Tick

SpecSweep == InitSweep /\ [][NextSweep]_vars

\* --------------------- the sweeper beside other processes, call by call

\* lines 86-89 and 100-103: the except clauses log the error and the loop
\* goes on with the next entry
AfterEntryErrorRaised == "raised"
AfterEntryError == "walk"

\* shutil.rmtree in the place of os.rmdir: it does not refuse a directory
\* that has entries
RmtreeFails(dirpath, ds, fs, lk) == dirpath \notin ds \/ dirpath \in lk

\* line 97: os.rmdir raises OSError for a directory that is gone, that is
\* not empty or that may not be removed
RmdirFails(dirpath, ds, fs, lk) ==
    dirpath \notin ds \/ ~IsEmptyDir(dirpath, ds, fs) \/ dirpath \in lk

\* line 83: os.remove raises OSError for a file that is gone or that may not
\* be removed
RemoveFails(filepath, fs, lk) == filepath \notin DOMAIN fs \/ filepath \in lk

Entry(kind, name, path, step) == [kind |-> kind, name |-> name, path |-> path, step |-> step]

\* the entry is dealt with: the loop moves to the next name
DoneFile(name) == ReplaceTop([Top EXCEPT !.files = @ \ {name}])
DoneDir(name) == ReplaceTop([Top EXCEPT !.dirs = @ \ {name}])

InLoops ==
    /\ swPc = "walk"
    /\ swStack # <<>>
    /\ Top.scanned
    /\ Top.walk_dirs = {}

\* line 82, first operand: os.path.exists(filepath)
FileExists ==
    /\ InLoops
    /\ swEntry = None
    /\ \E name \in Top.files :
        LET filepath == abspath(PathJoin2(Top.top, name))
        IN IF filepath \in DOMAIN files
           THEN swEntry' = Some(Entry("file", name, filepath, "stat")) /\ swStack' = swStack
           ELSE swEntry' = None /\ swStack' = DoneFile(name)
    /\ UNCHANGED <<swRemoved, envSteps, httpVars, gVars, sanVars, dlVars, fsVars, now, swPc, swRun,
                   days_old, cutoff_time, deleted_files_count, deleted_dirs_count, swErrors,
                   swStart, swPrev>>

\* line 82, second operand: os.stat(filepath).st_mtime < cutoff_time; os.stat
\* raises FileNotFoundError for a file that has gone since the test
FileStat ==
    /\ InLoops
    /\ swEntry # None
    /\ swEntry[1].kind = "file"
    /\ swEntry[1].step = "stat"
    /\ LET e == swEntry[1]
       IN IF e.path \notin DOMAIN files
          THEN /\ swErrors' = swErrors + 1
               /\ swPc' = AfterEntryError
               /\ swEntry' = None
               /\ swStack' = DoneFile(e.name)
          ELSE /\ UNCHANGED <<swErrors, swPc>>
               /\ IF IsOld(files[e.path], cutoff_time)
                  THEN swEntry' = Some(Entry("file", e.name, e.path, "remove")) /\ swStack' = swStack
                  ELSE swEntry' = None /\ swStack' = DoneFile(e.name)
    /\ UNCHANGED <<swRemoved, envSteps, httpVars, gVars, sanVars, dlVars, fsVars, now, swRun,
                   days_old, cutoff_time, deleted_files_count, deleted_dirs_count, swStart, swPrev>>

\* lines 83-89: os.remove(filepath) and the count
FileRemove ==
    /\ InLoops
    /\ swEntry # None
    /\ swEntry[1].kind = "file"
    /\ swEntry[1].step = "remove"
    /\ LET e == swEntry[1]
       IN /\ IF RemoveFails(e.path, files, locked)
             THEN /\ swErrors' = swErrors + 1
                  /\ swPc' = AfterEntryError
                  /\ UNCHANGED <<files, deleted_files_count, swRemoved>>
             ELSE /\ files' = Without(files, e.path)
                  /\ deleted_files_count' = deleted_files_count + 1
                  /\ swRemoved' = swRemoved \cup {[kind |-> "file", path |-> e.path]}
                  /\ UNCHANGED <<swErrors, swPc>>
          /\ swEntry' = None
          /\ swStack' = DoneFile(e.name)
    /\ UNCHANGED <<envSteps, httpVars, gVars, sanVars, dlVars, dirs, locked, now, swRun, days_old,
                   cutoff_time, deleted_dirs_count, swStart, swPrev>>

\* line 96, first operand: os.path.exists(dirpath)
DirExists ==
    /\ InLoops
    /\ Top.files = {}
    /\ swEntry = None
    /\ \E name \in Top.dirs :
        LET dirpath == abspath(PathJoin2(Top.top, name))
        IN IF dirpath \in dirs
           THEN swEntry' = Some(Entry("dir", name, dirpath, "listdir")) /\ swStack' = swStack
           ELSE swEntry' = None /\ swStack' = DoneDir(name)
    /\ UNCHANGED <<swRemoved, envSteps, httpVars, gVars, sanVars, dlVars, fsVars, now, swPc, swRun,
                   days_old, cutoff_time, deleted_files_count, deleted_dirs_count, swErrors,
                   swStart, swPrev>>

\* line 96, second operand: not os.listdir(dirpath); os.listdir raises
\* FileNotFoundError for a directory that has gone since the test
DirList ==
    /\ InLoops
    /\ swEntry # None
    /\ swEntry[1].kind = "dir"
    /\ swEntry[1].step = "listdir"
    /\ LET e == swEntry[1]
       IN IF e.path \notin dirs
          THEN /\ swErrors' = swErrors + 1
               /\ swPc' = AfterEntryError
               /\ swEntry' = None
               /\ swStack' = DoneDir(e.name)
          ELSE /\ UNCHANGED <<swErrors, swPc>>
               /\ IF IsEmptyDir(e.path, dirs, files)
                  THEN swEntry' = Some(Entry("dir", e.name, e.path, "rmdir")) /\ swStack' = swStack
                  ELSE swEntry' = None /\ swStack' = DoneDir(e.name)
    /\ UNCHANGED <<swRemoved, envSteps, httpVars, gVars, sanVars, dlVars, fsVars, now, swRun,
                   days_old, cutoff_time, deleted_files_count, deleted_dirs_count, swStart, swPrev>>

\* lines 97-103: os.rmdir(dirpath) and the count
DirRemove ==
    /\ InLoops
    /\ swEntry # None
    /\ swEntry[1].kind = "dir"
    /\ swEntry[1].step = "rmdir"
    /\ LET e == swEntry[1]
       IN /\ IF RmdirFails(e.path, dirs, files, locked)
             THEN /\ swErrors' = swErrors + 1
                  /\ swPc' = AfterEntryError
                  /\ UNCHANGED <<dirs, deleted_dirs_count, swRemoved>>
             ELSE /\ dirs' = dirs \ {e.path}
                  /\ deleted_dirs_count' = deleted_dirs_count + 1
                  /\ swRemoved' = swRemoved \cup {[kind |-> "dir", path |-> e.path]}
                  /\ UNCHANGED <<swErrors, swPc>>
          /\ swEntry' = None
          /\ swStack' = DoneDir(e.name)
    /\ UNCHANGED <<envSteps, httpVars, gVars, sanVars, dlVars, files, locked, now, swRun, days_old,
                   cutoff_time, deleted_files_count, swStart, swPrev>>

\* what other processes (downloads, an operator) do to the tree below the root
OutsideFile == <<"/", "srv", "/", "title", ".mp4">>
EnvFileSamples == {DateDir \o <<"/", "title", ".mp4">>, DateDir \o <<"/", "title", ".mkv">>}
EnvDirSamples == {DomainDir, DateDir}
EnvMtimes == {SecondsPerDay - 1, Now0}

EnvUnchanged ==
    UNCHANGED <<swEntry, swRemoved, httpVars, gVars, sanVars, dlVars, now, swVars>>

\* a file vanishes
EnvRemoveFile ==
    /\ envSteps < MaxEnvSteps
    /\ \E f \in DOMAIN files \cap EnvFileSamples : files' = Without(files, f)
    /\ envSteps' = envSteps + 1
    /\ UNCHANGED <<dirs, locked>>
    /\ EnvUnchanged

\* an empty directory vanishes
EnvRemoveDir ==
    /\ envSteps < MaxEnvSteps
    /\ \E d \in dirs \cap EnvDirSamples :
        /\ IsEmptyDir(d, dirs, files)
        /\ dirs' = dirs \ {d}
    /\ envSteps' = envSteps + 1
    /\ UNCHANGED <<files, locked>>
    /\ EnvUnchanged

\* a file appears in a directory that exists
EnvCreateFile ==
    /\ envSteps < MaxEnvSteps
    /\ \E f \in EnvFileSamples \ DOMAIN files, mtime \in EnvMtimes :
        /\ DirName(f) \in dirs
        /\ files' = [g \in DOMAIN files \cup {f} |-> IF g = f THEN mtime ELSE files[g]]
    /\ envSteps' = envSteps + 1
    /\ UNCHANGED <<dirs, locked>>
    /\ EnvUnchanged

\* a directory appears in a directory that exists
EnvCreateDir ==
    /\ envSteps < MaxEnvSteps
    /\ \E d \in EnvDirSamples \ dirs :
        /\ DirName(d) \in dirs
        /\ dirs' = dirs \cup {d}
    /\ envSteps' = envSteps + 1
    /\ UNCHANGED <<files, locked>>
    /\ EnvUnchanged

\* the permission to remove an entry is taken away or given back
EnvChmod ==
    /\ envSteps < MaxEnvSteps
    /\ \E e \in LockedSamples :
        locked' = IF e \in locked THEN locked \ {e} ELSE locked \cup {e}
    /\ envSteps' = envSteps + 1
    /\ UNCHANGED <<dirs, files>>
    /\ EnvUnchanged

InitConc ==
    /\ SanitizeIdle
    /\ DownloadIdle
    /\ HttpIdle
    /\ GuardIdle
    /\ dirs = WithAncestors(Cwd) \cup {SweepRoot, DomainDir, DateDir}
    /\ \E present \in SUBSET EnvFileSamples :
        files \in [present \cup {OutsideFile} -> {SecondsPerDay - 1}]
    /\ locked = {}
    /\ now = Now0
    /\ swPc = "start"
    /\ swRun = 1
    /\ days_old = 0
    /\ cutoff_time = 0
    /\ swStack = <<>>
    /\ deleted_files_count = 0
    /\ deleted_dirs_count = 0
    /\ swErrors = 0
    /\ swStart = None
    /\ swPrev = None
    /\ swEntry = None
    /\ swRemoved = {}
    /\ envSteps = 0

SweeperStep ==
    \/ SweepStart
    \/ WalkScan
    \/ WalkDescend
    \/ FileExists
    \/ FileStat
    \/ FileRemove
    \/ DirExists
    \/ DirList
    \/ DirRemove
    \/ WalkReturn
    \/ SweepFinish

EnvStep ==
    \/ EnvRemoveFile
    \/ EnvRemoveDir
    \/ EnvCreateFile
    \/ EnvCreateDir
    \/ EnvChmod

NextConc == SweeperStep \/ EnvStep

SpecConc == InitConc /\ [][NextConc]_vars

\* ---------------------------------------------------------------- claims

Ended == pc \in {"done", "raised"}
Returned == pc = "done" /\ result # None

\* C1: download_content with an empty URL returns a status-error result,
\* never calls subprocess.run and leaves the directories as they were.
C1_EmptyUrlRejected ==
    (url = <<>> /\ pc # "l114") =>
        /\ Returned
        /\ result[1].status = "error"
        /\ invocations = 0
        /\ dirs = dirs0

C1_Witness == url = <<>> /\ pc = "done" /\ result = Some(ErrorResult(<<"Empty URL provided.">>))

\* C2: subprocess.run is called only after check_disk_usage ran and returned
\* False; when it returned True the call ends by returning a status-error
\* result that reports the usage, and subprocess.run is never called.
C2_GuardBeforeSpawn ==
    /\ invocations > 0 => guard = Some(FALSE)
    /\ (guard = Some(TRUE) /\ Ended) =>
        /\ Returned
        /\ result[1].status = "error"
        /\ result[1].error \in {UsageMessage(u) : u \in UsageSamples}
        /\ invocations = 0

\* C3: once subprocess.run was called the result follows the exit status
\* alone: exit 0 gives success whatever was printed, a non-zero exit gives
\* error with exactly the standard-error text, a missing executable gives
\* error with a message.
C3_ClassifiedByExitStatus ==
    (proc # None /\ Returned) =>
        LET o == proc[1]
            r == result[1]
        IN /\ (o.kind = "exit" /\ o.returncode = 0) => r.status = "success"
           /\ (o.kind = "exit" /\ o.returncode # 0) => (r.status = "error" /\ r.error = o.stderr)
           /\ o.kind = "notfound" => (r.status = "error" /\ r.error # <<>>)

\* C4: every call of download_content ends by returning a result record; no
\* exception leaves it.
C4_NoExceptionEscapes == pc # "raised"

\* C5: a status-error result has no video_filename key, and the key is
\* present (its value possibly None) only on status-success results.
C5_ArtifactOnlyOnSuccess ==
    result # None =>
        LET r == result[1]
        IN /\ r.status \in {"success", "error"}
           /\ r.status = "error" => "video_filename" \notin DOMAIN r
           /\ "video_filename" \in DOMAIN r => r.status = "success"
           /\ r.status = "success" => "video_filename" \in DOMAIN r

C5_Witness ==
    /\ result # None
    /\ result[1].status = "success"
    /\ result[1].video_filename = None
    /\ proc[1].stdout # <<>>

\* C6: the output location root/sanitize(domain)/date, once normalized, is
\* the output root or a descendant of it, for every domain.
C6_SavePathUnderRoot ==
    save_path # None => IsUnder(abspath(save_path[1]), abspath(DOWNLOAD_DIR))

ToolPrinted == proc # None /\ proc[1].kind = "exit" /\ proc[1].returncode = 0 /\ proc[1].decodable

\* C8: when standard output holds lines that start with '{' and end with '}',
\* the artifact path is the one the last such line alone gives, whatever the
\* earlier lines hold; with root /root and a last record whose _filename is
\* /root/domain/date/title.mp4 it is domain/date/title.mp4.
C8_LastStructuredLine ==
    (ToolPrinted /\ Returned /\ json_lines(proc[1].stdout) # <<>>) =>
        LET records == json_lines(proc[1].stdout)
        IN /\ result[1].video_filename = ExtractFilename(<<Last(records)>>, DOWNLOAD_DIR)
           /\ (DOWNLOAD_DIR = <<"/", "root">> /\ Last(records) = JsonFilenameLine(PathUnderAbsRoot)) =>
                result[1].video_filename = Some(<<"domain", "/", "date", "/", "title", ".mp4">>)

C8_Witness ==
    /\ ToolPrinted
    /\ Returned
    /\ DOWNLOAD_DIR = <<"/", "root">>
    /\ proc[1].stdout = <<JsonFilenameLine(PathElsewhere), JsonFilenameLine(PathUnderAbsRoot)>>
    /\ result[1].video_filename = Some(<<"domain", "/", "date", "/", "title", ".mp4">>)

C10_SweepIdempotent ==
    (swPc = "done" /\ swPrev # None /\ swPrev[1].cutoff = cutoff_time) =>
        /\ deleted_files_count = 0
        /\ deleted_dirs_count = 0
        /\ dirs = swPrev[1].dirs
        /\ files = swPrev[1].files

C10_Witness ==
    /\ swPc = "done"
    /\ swPrev # None
    /\ swPrev[1].cutoff = cutoff_time
    /\ swPrev[1].deleted_files_count > 0
    /\ swPrev[1].deleted_dirs_count = 2
    /\ deleted_files_count = 0
    /\ deleted_dirs_count = 0

\* ----------------------------------------------------- sanitizer harness

InitSanitize ==
    /\ sanIn \in SeqsUpTo(Chars, MaxLen)
    /\ sanOut = None
    /\ sanPc = "call"
    /\ DownloadIdle
    /\ dirs = {}
    /\ files = <<>>
    /\ locked = {}
    /\ now = Now0
    /\ SweepIdle
    /\ ConcIdle
    /\ HttpIdle
    /\ GuardIdle

CallSanitize ==
    /\ sanPc = "call"
    /\ sanOut' = Some(sanitize_filename(sanIn))
    /\ sanPc' = "returned"
    /\ UNCHANGED <<auxVars, sanIn, dirs, dlVars, files, locked, now, swVars>>

NextSanitize == CallSanitize

SpecSanitize == InitSanitize /\ [][NextSanitize]_vars

AllowedAscii == AsciiLetters \cup AsciiDigits \cup KeptPunct
AllowedAnyScript == AllowedAscii \cup UnicodeAlnum

\* C7 as stated: the output holds only characters of [A-Za-z0-9 ._-], has
\* the argument's length, keeps each of those characters at its position and
\* puts one underscore for every other character.
C7_AsciiOnly ==
    sanPc = "returned" =>
        LET out == sanOut[1]
        IN /\ Len(out) = Len(sanIn)
           /\ \A i \in 1..Len(sanIn) :
                /\ out[i] \in AllowedAscii
                /\ sanIn[i] \in AllowedAscii => out[i] = sanIn[i]
                /\ sanIn[i] \notin AllowedAscii => out[i] = "_"
           /\ (\A i \in 1..Len(sanIn) : sanIn[i] \in AllowedAscii) => out = sanIn

\* C7: sanitize_filename returns a string of the argument's length in which
\* every alphanumeric character (of any script, as str.isalnum has it) and
\* every character of " ._-" stands unchanged at its position and every
\* other character is replaced by one underscore; an argument made of kept
\* characters only is returned unchanged.
C7_Sanitize ==
    sanPc = "returned" =>
        LET out == sanOut[1]
        IN /\ Len(out) = Len(sanIn)
           /\ \A i \in 1..Len(sanIn) :
                /\ out[i] \in AllowedAnyScript
                /\ sanIn[i] \in AllowedAnyScript => out[i] = sanIn[i]
                /\ sanIn[i] \notin AllowedAnyScript => out[i] = "_"
           /\ (\A i \in 1..Len(sanIn) : sanIn[i] \in AllowedAnyScript) => out = sanIn

C7_Witness ==
    /\ sanPc = "returned"
    /\ sanIn = <<"U+00E9", "/", "-">>
    /\ sanOut = Some(<<"U+00E9", "_", "-">>)

\* ------------------------------------------------- capacity guard harness

GuardPaths == {<<"downloads">>, <<"/", "root">>, <<"/", "srv">>}
GuardThresholds == {0, 50, 89, 90, 91, 100}

InitGuard ==
    /\ SanitizeIdle
    /\ DownloadIdle
    /\ SweepIdle
    /\ ConcIdle
    /\ HttpIdle
    /\ dirs \in {WithAncestors(Cwd), WithAncestors(Cwd) \cup WithAncestors(abspath(<<"downloads">>))}
    /\ files = <<>>
    /\ locked = {}
    /\ now = Now0
    /\ gPath \in GuardPaths
    /\ gThreshold \in GuardThresholds
    /\ gReading = None
    /\ gOut = None
    /\ gPc = "call"

\* lines 40-59: one call of check_disk_usage(path, threshold_percent)
CallGuard ==
    /\ gPc = "call"
    /\ \E reading \in DiskReadings(abspath(gPath)) :
        /\ gReading' = Some(reading)
        /\ gOut' = Some(check_disk_usage(reading, gThreshold))
    /\ gPc' = "returned"
    /\ UNCHANGED <<concVars, httpVars, sanVars, dlVars, fsVars, now, swVars, gPath, gThreshold>>

NextGuard == CallGuard

SpecGuard == InitGuard /\ [][NextGuard]_vars

Responded == httpPc = "responded"

\* C11: a POST /download whose url is missing or empty is answered with
\* status code 400, and nothing was created and no process was spawned.
C11_MissingOrEmptyRejected ==
    (Responded /\ (MissingUrl(reqBody) \/ reqBody.url = <<>>)) =>
        /\ response[1].code = 400
        /\ invocations = 0
        /\ proc = None
        /\ dirs = dirs0

ReportedPaths == {PathUnderAbsRoot, PathUnderAbsRootMkv, PathUnderRelRoot, PathSibling, PathElsewhere}

\* the single line of standard output reports path p, in either tier
ReportsOnly(p) ==
    /\ ToolPrinted
    /\ Returned
    /\ proc[1].stdout \in {<<JsonFilenameLine(p)>>, <<MergeLine(p)>>}

\* C14: a reported path under the output root is returned relative to the
\* root, without a ".." segment; a reported path that is not under the root,
\* a sibling such as downloads2/x.mp4 for the root downloads included, is
\* returned exactly as reported.
C14_Relativized ==
    \A p \in ReportedPaths :
        ReportsOnly(p) =>
            IF IsUnder(abspath(p), abspath(DOWNLOAD_DIR))
            THEN /\ result[1].video_filename # None
                 /\ abspath(PathJoin2(DOWNLOAD_DIR, result[1].video_filename[1])) = abspath(p)
                 /\ \A k \in DOMAIN Segments(result[1].video_filename[1]) :
                        Segments(result[1].video_filename[1])[k] # ParDir
            ELSE result[1].video_filename = Some(p)

\* records that give no file name: no "_filename" key, a null one, no JSON
RecordsWithoutFilename ==
    { <<"{", Q, "title", Q, ":", " ", Q, "x", Q, "}">>,
      <<"{", Q, "_filename", Q, ":", " ", "null", "}">>,
      <<"{", "title", "}">> }

\* the lines of stdout that line 182 accepts and that hold a quoted path
MergeCandidates(stdout) ==
    {i \in DOMAIN stdout :
        /\ Contains(stdout[i], MergeMarker)
        /\ Contains(stdout[i], ".mp4") \/ Contains(stdout[i], ".mkv")
        /\ HasQuotedPath(stdout[i])}

RaceUrl == <<"http:", "/", "/", "a", "7", "/", "x">>

InitRace ==
    /\ SanitizeIdle
    /\ HttpIdle
    /\ GuardIdle
    /\ ConcIdle
    /\ DOWNLOAD_DIR = <<"downloads">>
    /\ url = RaceUrl
    /\ \/ /\ dirs = WithAncestors(Cwd) \cup {SweepRoot}
          /\ files = <<>>
       \/ /\ dirs = WithAncestors(Cwd) \cup {SweepRoot, DomainDir, DateDir}
          /\ files \in [{DateDir \o <<"/", "title", ".mp4">>} -> {SecondsPerDay - 1}]
    /\ dirs0 = dirs
    /\ locked = {}
    /\ now = Now0
    /\ pc = "l114"
    /\ guard = None
    /\ save_path = None
    /\ proc = None
    /\ invocations = 0
    /\ result = None
    /\ swPc = "start"
    /\ swRun = 1
    /\ days_old = 0
    /\ cutoff_time = 0
    /\ swStack = <<>>
    /\ deleted_files_count = 0
    /\ deleted_dirs_count = 0
    /\ swErrors = 0
    /\ swStart = None
    /\ swPrev = None

DownloadStep ==
    \/ CheckUrl
    \/ MakeRoot
    \/ RunGuard
    \/ ReportLowSpace
    \/ ComputeSavePath
    \/ MakeSavePath
    \/ RunTool

NextRace == DownloadStep \/ SweeperStep

SpecRace == InitRace /\ [][NextRace]_vars

\* C17: when download_content is about to call subprocess.run, the output
\* location that line 133 created exists, also while clean_old_downloads
\* runs beside the download.
C17_SavePathExistsAtSpawn ==
    pc = "l149" => abspath(save_path[1]) \in dirs

\* ------------------------------- claims on the sweeper beside other processes

RemovedOfKind(kind) == {e \in swRemoved : e.kind = kind}

\* the sweeper has a statement to run next: it is before line 66, at a
\* point of os.walk or of the two loops, or half way through an entry of
\* the loop it is in
HasNextStep ==
    \/ swPc = "start"
    \/ /\ swPc = "walk"
       /\ swEntry = None
    \/ /\ swPc = "walk"
       /\ swEntry # None
       /\ InLoops
       /\ \/ /\ swEntry[1].kind = "file"
             /\ swEntry[1].step \in {"stat", "remove"}
             /\ swEntry[1].name \in Top.files
          \/ /\ swEntry[1].kind = "dir"
             /\ swEntry[1].step \in {"listdir", "rmdir"}
             /\ swEntry[1].name \in Top.dirs
             /\ Top.files = {}

\* C16: whatever other processes do to the tree between the traversal, the
\* existence test and the removal call (an entry vanishes, a directory is
\* filled again, a removal is refused), no exception leaves
\* clean_old_downloads, the call always has a next statement to run until
\* it has returned, it takes only finitely many steps, and the two counts
\* are the numbers of files and of directories that os.remove and os.rmdir
\* have removed.
C16_SweepTolerates ==
    /\ [](swPc # "raised")
    /\ [](swPc # "done" => HasNextStep)
    /\ [](swPc = "done" => swStack = <<>> /\ swEntry = None)
    /\ [](/\ deleted_files_count = Cardinality(RemovedOfKind("file"))
          /\ deleted_dirs_count = Cardinality(RemovedOfKind("dir")))
    /\ <>[][UNCHANGED <<swPc, swStack, swEntry>>]_vars

C16_Witness ==
    /\ swPc = "done"
    /\ envSteps > 0
    /\ swErrors > 0
    /\ deleted_dirs_count > 0

\* strictly below the output root
BelowRoot(path) ==
    IsUnder(path, abspath(DOWNLOAD_DIR)) /\ path # abspath(DOWNLOAD_DIR)

\* C18: every entry a step of clean_old_downloads removes lies strictly
\* below the output root, and a directory it removes is empty at that
\* moment; the root itself, and the entries outside it, stay, also in a call
\* that removes every file.
C18_OnlyBelowRoot ==
    /\ [][envSteps' = envSteps =>
            /\ \A d \in dirs \ dirs' : BelowRoot(d) /\ IsEmptyDir(d, dirs, files)
            /\ \A f \in DOMAIN files \ DOMAIN files' : BelowRoot(f)]_vars
    /\ [](abspath(DOWNLOAD_DIR) \in dirs)
    /\ [](OutsideFile \in DOMAIN files /\ WithAncestors(Cwd) \subseteq dirs)

C18_Witness ==
    /\ swPc = "done"
    /\ deleted_files_count > 0
    /\ deleted_dirs_count > 0
    /\ \A f \in DOMAIN files : ~BelowRoot(f)
    /\ abspath(DOWNLOAD_DIR) \in dirs
    /\ OutsideFile \in DOMAIN files
====
